---- MODULE Spec2Model ----
(***************************************************************************)
(* Model of spac_kit.autodocs (src/src/spac_kit/autodocs/__init__.py):     *)
(* the stub and index generation run at "builder-inited"                   *)
(* (generate_packet_stubs) and the "spacdocs" directive                    *)
(* (SpacDocsDirective.run).                                                *)
(*                                                                         *)
(* A Python str is a sequence of one-character strings, so that split,     *)
(* replace, join, str() and the f-strings of the source are computed.      *)
(***************************************************************************)
EXTENDS Naturals, Sequences, FiniteSets, TLC

VARIABLES
    packet_modules,   \* app.config.spacdocs_packet_modules (conf.py)
    exclude_columns,  \* conf.py's list of summary columns to exclude
    host,             \* the host application: module path -> import result
    stub_dir,         \* files of <srcdir>/_autopackets: file name -> content
    toctree_file,     \* <srcdir>/_packet_index.rst: NoFile or its content
    stub_infos,       \* stub_infos of the last run of generate_packet_stubs
    writes,           \* the files the last run opened for writing, in order
    outcome,          \* "none" | "skipped" | "done": how the last run ended
    unchanged,        \* the last run had the configuration and host of the run before it
    last_inputs,      \* <<packet_modules, host>> of the last run, or <<>>
    builds,           \* number of runs of generate_packet_stubs so far
    edits,            \* number of edits of conf.py / the host so far
    arguments,        \* self.arguments[0] of the last directive occurrence
    result            \* what SpacDocsDirective.run gave for it

vars == <<packet_modules, exclude_columns, host, stub_dir, toctree_file,
          stub_infos, writes, outcome, unchanged, last_inputs, builds, edits,
          arguments, result>>

(***************************************************************************)
(* Bounds of the model.                                                    *)
(***************************************************************************)
MaxModules == 2
MaxBuilds == 2
MaxEdits == 1
MaxFields == 3

(***************************************************************************)
(* Python str operations.                                                  *)
(***************************************************************************)
NL == "\n"

\* ord() of the characters that occur in identifiers of the model.
Ord(c) ==
    CASE c = "." -> 46
      [] c = "_" -> 95
      [] c = "a" -> 97
      [] c = "b" -> 98
      [] c = "c" -> 99
      [] c = "d" -> 100
      [] c = "m" -> 109
      [] c = "o" -> 111
      [] OTHER -> 0

RECURSIVE StrLess(_, _)
\* s < t for two str: lexicographic by code point.
StrLess(s, t) ==
    IF t = <<>> THEN FALSE
    ELSE IF s = <<>> THEN TRUE
    ELSE IF Ord(Head(s)) # Ord(Head(t)) THEN Ord(Head(s)) < Ord(Head(t))
    ELSE StrLess(Tail(s), Tail(t))

RECURSIVE Sorted(_)
\* sorted(S) for a finite set of str.
Sorted(S) ==
    IF S = {} THEN <<>>
    ELSE LET least == CHOOSE s \in S : \A t \in S \ {s} : StrLess(s, t)
         IN  <<least>> \o Sorted(S \ {least})

RECURSIVE Repeat(_, _)
\* c * n
Repeat(c, n) == IF n = 0 THEN <<>> ELSE <<c>> \o Repeat(c, n - 1)

RECURSIVE Replace(_, _, _)
\* s.replace(old, new) for one-character old and new.
Replace(s, old, new) ==
    IF s = <<>> THEN <<>>
    ELSE <<IF Head(s) = old THEN new ELSE Head(s)>> \o Replace(Tail(s), old, new)

RECURSIVE Split(_, _)
\* s.split(sep) for a one-character sep: never empty, "" gives [""].
Split(s, sep) ==
    IF \A i \in 1..Len(s) : s[i] # sep THEN <<s>>
    ELSE LET i == CHOOSE k \in 1..Len(s) :
                      s[k] = sep /\ \A j \in 1..(k - 1) : s[j] # sep
         IN  <<SubSeq(s, 1, i - 1)>> \o Split(SubSeq(s, i + 1, Len(s)), sep)

RECURSIVE Join(_, _)
\* sep.join(parts)
Join(parts, sep) ==
    IF parts = <<>> THEN <<>>
    ELSE IF Len(parts) = 1 THEN parts[1]
    ELSE parts[1] \o sep \o Join(Tail(parts), sep)

\* s.rsplit(".", 1): split once at the last dot; one part when there is none.
RSplit1(s) ==
    IF \A i \in 1..Len(s) : s[i] # "." THEN <<s>>
    ELSE LET i == CHOOSE k \in 1..Len(s) :
                      s[k] = "." /\ \A j \in (k + 1)..Len(s) : s[j] # "."
         IN  <<SubSeq(s, 1, i - 1), SubSeq(s, i + 1, Len(s))>>

Digit(d) ==
    CASE d = 0 -> "0" [] d = 1 -> "1" [] d = 2 -> "2" [] d = 3 -> "3"
      [] d = 4 -> "4" [] d = 5 -> "5" [] d = 6 -> "6" [] d = 7 -> "7"
      [] d = 8 -> "8" [] d = 9 -> "9"

RECURSIVE StrInt(_)
\* str(n) for an int n >= 0.
StrInt(n) == IF n < 10 THEN <<Digit(n)>> ELSE StrInt(n \div 10) \o <<Digit(n % 10)>>

(***************************************************************************)
(* The host application.  Importing a module raises (ImportFails) or gives *)
(* a module object, whose attrs maps its attribute names to objects; an    *)
(* object's isPacket says whether isinstance(obj, _BasePacket).            *)
(***************************************************************************)
Mod_m_a == <<"m", "_", "a">>
Mod_m_dot_a == <<"m", ".", "a">>
Mod_m_dot_b == <<"m", ".", "b">>
ModulePaths == {Mod_m_a, Mod_m_dot_a, Mod_m_dot_b}

Attr_a == <<"a">>
Attr_b == <<"b">>
\* "__doc__", which every module has and which is no packet.
Attr_doc == <<"_", "_", "d", "o", "c", "_", "_">>

ImportFails == [ok |-> FALSE]
NoneObject == [isPacket |-> FALSE, isNone |-> TRUE]
OtherObject == [isPacket |-> FALSE, isNone |-> FALSE]
EmptyPacket == [isPacket |-> TRUE, name |-> <<"P">>, typeName |-> <<"V">>, fields |-> <<>>]

\* The names of the packets a module of the model may define.
AttrsOf(modpath) ==
    CASE modpath = Mod_m_a -> {Attr_b}
      [] modpath = Mod_m_dot_a -> {Attr_a, Attr_b}
      [] modpath = Mod_m_dot_b -> {Attr_b}

\* The states of one module: not importable, or with __doc__ and any of its
\* packet names defined, each as one of the given packets.
ModuleStates(modpath, packets) ==
    {ImportFails} \cup
    {[ok |-> TRUE,
      attrs |-> [n \in DOMAIN a \cup {Attr_doc} |->
                    IF n = Attr_doc THEN OtherObject ELSE a[n]]] :
        a \in UNION {[names -> packets] : names \in SUBSET AttrsOf(modpath)}}

\* importlib.import_module(modpath): a path the host does not have fails too.
import_module(h, modpath) == IF modpath \in DOMAIN h THEN h[modpath] ELSE ImportFails

\* dir(module): the attribute names, sorted.
Dir(module) == Sorted(DOMAIN module.attrs)

\* getattr(module, name, None)
GetAttrOrNone(module, name) ==
    IF name \in DOMAIN module.attrs THEN module.attrs[name] ELSE NoneObject

(***************************************************************************)
(* generate_packet_stubs                                                   *)
(***************************************************************************)
\* ".rst"
RstSuffix ==
    <<".", "r", "s", "t">>

\* "_autopackets/"
StubDirPrefix ==
    <<"_", "a", "u", "t", "o", "p", "a", "c", "k", "e", "t", "s", "/">>

\* "_packet_index.rst", the name of TOCTREE_FILE
ToctreeName ==
    <<"_", "p", "a", "c", "k", "e", "t", "_", "i", "n", "d", "e", "x", ".",
      "r", "s", "t">>

\* "\n\n.. spacdocs:: "
DirectiveLine ==
    <<NL, NL, ".", ".", " ", "s", "p", "a", "c", "d", "o", "c", "s", ":",
      ":", " ">>

\* "\n\n.. toctree::\n   :maxdepth: 2\n\n"
ToctreeHead ==
    <<NL, NL, ".", ".", " ", "t", "o", "c", "t", "r", "e", "e", ":", ":", NL,
      " ", " ", " ", ":", "m", "a", "x", "d", "e", "p", "t", "h", ":", " ",
      "2", NL, NL>>

\* "packets", the header of a child group with no name
PacketsHeader ==
    <<"p", "a", "c", "k", "e", "t", "s">>

\* stub_name: the module path with "_" for ".", then "_<attr_name>" unless
\* attr_name is the module path's last segment.
StubName(modpath, attr_name) ==
    LET modpath_parts == Split(modpath, ".")
        last_modpart == modpath_parts[Len(modpath_parts)]
    IN  IF attr_name = last_modpart
        THEN Replace(modpath, ".", "_") \o RstSuffix
        ELSE Replace(modpath, ".", "_") \o <<"_">> \o attr_name \o RstSuffix

\* stub_content
StubContent(modpath, attr_name) ==
    LET full_var_path == modpath \o <<".">> \o attr_name
    IN  attr_name \o <<NL>> \o Repeat("=", Len(attr_name)) \o DirectiveLine
        \o full_var_path \o <<NL, NL>>

\* A directory with one file (re)written.
WriteFile(dir, name, content) ==
    [n \in DOMAIN dir \cup {name} |-> IF n = name THEN content ELSE dir[n]]

\* write_stub: whether the stub is written (it is absent, or its content differs).
StubNeedsWrite(dir, stub_name, stub_content) ==
    ~(stub_name \in DOMAIN dir /\ dir[stub_name] = stub_content)

\* The body of "if isinstance(attr, _BasePacket):" for one attribute: the
\* stub is written when needed and the packet is recorded in stub_infos.
ProcessPacket(st, modpath, attr_name) ==
    LET stub_name == StubName(modpath, attr_name)
        stub_content == StubContent(modpath, attr_name)
        write_stub == StubNeedsWrite(st.dir, stub_name, stub_content)
        stub_relpath == StubDirPrefix \o stub_name
    IN  [st EXCEPT
            !.dir = IF write_stub THEN WriteFile(st.dir, stub_name, stub_content)
                    ELSE st.dir,
            !.writes = IF write_stub THEN Append(st.writes, stub_relpath)
                       ELSE st.writes,
            !.infos = Append(st.infos,
                             [module_path |-> modpath,
                              packet_name |-> attr_name,
                              stub_relpath |-> stub_relpath])]

\* isinstance(attr, _BasePacket)
IsBasePacket(attr) == attr.isPacket

RECURSIVE ScanAttrs(_, _, _, _)
\* "for attr_name in dir(module):" over the remaining names.
ScanAttrs(st, modpath, module, names) ==
    IF names = <<>> THEN st
    ELSE LET attr_name == Head(names)
             attr == module.attrs[attr_name]
             next == IF IsBasePacket(attr) THEN ProcessPacket(st, modpath, attr_name)
                     ELSE st
         IN  ScanAttrs(next, modpath, module, Tail(names))

\* The import error is not caught and ends the run.
ImportFailedRaises(st) == [st EXCEPT !.raised = TRUE]

\* "except Exception as e: logger.error(...); continue": the run goes on.
ImportFailed(st) == st

RECURSIVE ScanModules(_, _, _)
\* "for modpath in PACKET_MODULES:" over the remaining module paths.
ScanModules(st, h, mods) ==
    IF mods = <<>> \/ st.raised THEN st
    ELSE LET modpath == Head(mods)
             module == import_module(h, modpath)
             next == IF ~module.ok THEN ImportFailed(st)
                     ELSE ScanAttrs(st, modpath, module, Dir(module))
         IN  ScanModules(next, h, Tail(mods))

\* No special case for a module path of one segment.
ParentChildAlwaysSplit(module_path) ==
    LET mod_parts == Split(module_path, ".")
    IN  [parent_mod |-> Join(SubSeq(mod_parts, 1, Len(mod_parts) - 1), <<".">>),
         child_mod |-> mod_parts[Len(mod_parts)]]

\* (parent_mod, child_mod) of a module path.
ParentChild(module_path) ==
    LET mod_parts == Split(module_path, ".")
    IN  IF Len(mod_parts) < 2
        THEN [parent_mod |-> module_path, child_mod |-> <<>>]
        ELSE [parent_mod |-> Join(SubSeq(mod_parts, 1, Len(mod_parts) - 1), <<".">>),
              child_mod |-> mod_parts[Len(mod_parts)]]

\* d[key].append(item) on an insertion-ordered dict of lists, held as a
\* sequence of [key, items]: a new key goes last.
AppendUnder(d, key, item) ==
    IF \E i \in 1..Len(d) : d[i].key = key
    THEN [i \in 1..Len(d) |->
            IF d[i].key = key THEN [d[i] EXCEPT !.items = Append(@, item)] ELSE d[i]]
    ELSE Append(d, [key |-> key, items |-> <<item>>])

\* parent_to_child[parent_mod][child_mod].append(entry)
AddToGroups(groups, parent_mod, child_mod, entry) ==
    IF \E i \in 1..Len(groups) : groups[i].key = parent_mod
    THEN [i \in 1..Len(groups) |->
            IF groups[i].key = parent_mod
            THEN [groups[i] EXCEPT !.items = AppendUnder(@, child_mod, entry)]
            ELSE groups[i]]
    ELSE Append(groups, [key |-> parent_mod,
                         items |-> AppendUnder(<<>>, child_mod, entry)])

RECURSIVE GroupStubs(_, _)
\* parent_to_child after "for info in stub_infos:" over the remaining infos.
GroupStubs(groups, infos) ==
    IF infos = <<>> THEN groups
    ELSE LET info == Head(infos)
             pc == ParentChild(info.module_path)
         IN  GroupStubs(AddToGroups(groups, pc.parent_mod, pc.child_mod,
                                    [packet_name |-> info.packet_name,
                                     stub |-> info.stub_relpath]),
                        Tail(infos))

RECURSIVE PacketLines(_)
\* "   <stub>\n" for each packet of a child group.
PacketLines(packets) ==
    IF packets = <<>> THEN <<>>
    ELSE <<" ", " ", " ">> \o Head(packets).stub \o <<NL>> \o PacketLines(Tail(packets))

RECURSIVE ChildBlocks(_)
\* The text of the child groups of one parent.
ChildBlocks(children) ==
    IF children = <<>> THEN <<>>
    ELSE LET child_mod == Head(children).key
             child_header == IF child_mod # <<>> THEN child_mod ELSE PacketsHeader
         IN  child_header \o <<NL>> \o Repeat("-", Len(child_header)) \o ToctreeHead
             \o PacketLines(Head(children).items) \o <<NL>>
             \o ChildBlocks(Tail(children))

RECURSIVE ToctreeContent(_)
\* toctree_content for parent_to_child.
ToctreeContent(groups) ==
    IF groups = <<>> THEN <<>>
    ELSE LET parent_mod == Head(groups).key
         IN  parent_mod \o <<NL>> \o Repeat("=", Len(parent_mod)) \o <<NL, NL>>
             \o ChildBlocks(Head(groups).items) \o <<NL>>
             \o ToctreeContent(Tail(groups))

\* The index is written only when the file is absent.
ToctreeNeedsWriteIfAbsent(toc, toctree_content) == toc = <<>>

\* write_toctree: the index is written when absent or different.
ToctreeNeedsWrite(toc, toctree_content) == toc # <<toctree_content>>

\* generate_packet_stubs(app): the files and the log after the run.
generate_packet_stubs(mods, h, dir, toc) ==
    IF mods = <<>>
    THEN [outcome |-> "skipped", dir |-> dir, toc |-> toc,
          writes |-> <<>>, infos |-> <<>>]
    ELSE LET st == ScanModules([dir |-> dir, writes |-> <<>>, infos |-> <<>>,
                                raised |-> FALSE], h, mods)
             parent_to_child == GroupStubs(<<>>, st.infos)
             toctree_content == ToctreeContent(parent_to_child)
             write_toctree == ToctreeNeedsWrite(toc, toctree_content)
         IN  IF st.raised
             THEN [outcome |-> "raised", dir |-> st.dir, toc |-> toc,
                   writes |-> st.writes, infos |-> st.infos]
             ELSE [outcome |-> "done", dir |-> st.dir,
                   toc |-> IF write_toctree THEN <<toctree_content>> ELSE toc,
                   writes |-> IF write_toctree THEN Append(st.writes, ToctreeName)
                              ELSE st.writes,
                   infos |-> st.infos]

(***************************************************************************)
(* The documentation project over successive builds.                       *)
(***************************************************************************)
RECURSIVE SeqsUpTo(_, _)
\* The sequences over S of length at most n.
SeqsUpTo(S, n) ==
    IF n = 0 THEN {<<>>}
    ELSE LET shorter == SeqsUpTo(S, n - 1)
         IN  shorter \cup {Append(q, x) : q \in shorter, x \in S}

\* The values of spacdocs_packet_modules.
ModuleLists == SeqsUpTo(ModulePaths, MaxModules)

\* The hosts whose packets have no fields.
StubHosts ==
    {h \in [ModulePaths -> UNION {ModuleStates(m, {EmptyPacket}) : m \in ModulePaths}] :
        \A m \in ModulePaths : h[m] \in ModuleStates(m, {EmptyPacket})}

NotRun == [kind |-> "not run"]

\* A fresh project: nothing generated yet.
Init ==
    /\ packet_modules \in ModuleLists
    /\ exclude_columns = {}
    /\ host \in StubHosts
    /\ stub_dir = <<>>
    /\ toctree_file = <<>>
    /\ stub_infos = <<>>
    /\ writes = <<>>
    /\ outcome = "none"
    /\ unchanged = FALSE
    /\ last_inputs = <<>>
    /\ builds = 0
    /\ edits = 0
    /\ arguments = <<>>
    /\ result = NotRun

\* One build: Sphinx emits "builder-inited" and generate_packet_stubs runs.
Build ==
    /\ builds < MaxBuilds
    /\ LET r == generate_packet_stubs(packet_modules, host, stub_dir, toctree_file)
       IN  /\ stub_dir' = r.dir
           /\ toctree_file' = r.toc
           /\ writes' = r.writes
           /\ stub_infos' = r.infos
           /\ outcome' = r.outcome
    /\ unchanged' = (last_inputs = <<packet_modules, host>>)
    /\ last_inputs' = <<packet_modules, host>>
    /\ builds' = builds + 1
    /\ UNCHANGED <<packet_modules, exclude_columns, host, edits, arguments, result>>

\* Between two builds the user edits spacdocs_packet_modules in conf.py:
\* a module path is added at the end, or the last one is removed.
EditConf ==
    /\ 0 < builds /\ builds < MaxBuilds
    /\ edits < MaxEdits
    /\ \/ /\ Len(packet_modules) < MaxModules
          /\ \E m \in ModulePaths : packet_modules' = Append(packet_modules, m)
       \/ /\ packet_modules # <<>>
          /\ packet_modules' = SubSeq(packet_modules, 1, Len(packet_modules) - 1)
    /\ edits' = edits + 1
    /\ UNCHANGED <<exclude_columns, host, stub_dir, toctree_file, stub_infos, writes,
                   outcome, unchanged, last_inputs, builds, arguments, result>>

\* Between two builds one of the listed modules of the host application changes.
EditHost ==
    /\ 0 < builds /\ builds < MaxBuilds
    /\ edits < MaxEdits
    /\ \E m \in {packet_modules[i] : i \in 1..Len(packet_modules)} :
         \E s \in ModuleStates(m, {EmptyPacket}) \ {host[m]} :
            host' = [host EXCEPT ![m] = s]
    /\ edits' = edits + 1
    /\ UNCHANGED <<packet_modules, exclude_columns, stub_dir, toctree_file, stub_infos,
                   writes, outcome, unchanged, last_inputs, builds, arguments, result>>

Next == Build \/ EditConf \/ EditHost

Spec == Init /\ [][Next]_vars

(***************************************************************************)
(* Properties of stub and index generation.                                *)
(***************************************************************************)
\* What the last run's inputs give on a source directory with no generated files.
FreshRun == generate_packet_stubs(last_inputs[1], last_inputs[2], <<>>, <<>>)

\* The file name of a stub_infos entry.
StubFileOf(info) == StubName(info.module_path, info.packet_name)

\* text holds the index line "   <stub_relpath>\n".
ListedIn(text, stub_relpath) ==
    LET line == <<" ", " ", " ">> \o stub_relpath \o <<NL>>
    IN  \E i \in 1..Len(text) :
            i + Len(line) - 1 <= Len(text) /\ SubSeq(text, i, i + Len(line) - 1) = line

\* C1: a run with the configuration and host of the run before it writes no
\* stub file and does not write the index file.
C1_SecondRunWritesNothing == (builds >= 2 /\ unchanged) => writes = <<>>

\* C5: within one run, two discovered packets that differ in module path or
\* attribute name have different stub files.
C5_DistinctPacketsDistinctStubs ==
    \A i, j \in 1..Len(stub_infos) :
        (stub_infos[i].module_path # stub_infos[j].module_path
            \/ stub_infos[i].packet_name # stub_infos[j].packet_name)
        => stub_infos[i].stub_relpath # stub_infos[j].stub_relpath

\* C6 as claimed: after every run the stub files and the index are exactly
\* what the run's inputs give on a directory with no generated files.
C6_FilesAreThoseOfThisRun ==
    builds > 0 =>
        LET fresh == FreshRun
        IN  stub_dir = fresh.dir /\ toctree_file = fresh.toc

\* C6 as amended: after a run with a non-empty module list, the index and
\* every stub file the run's discovery names hold what the run's inputs give
\* on a directory with no generated files; stub files left by earlier builds
\* that this run does not name, and everything when the list is empty, stay.
C6_DiscoveredFilesAreThoseOfThisRun ==
    outcome = "done" =>
        LET fresh == FreshRun
        IN  /\ toctree_file = fresh.toc
            /\ stub_infos = fresh.infos
            /\ \A n \in DOMAIN fresh.dir :
                  n \in DOMAIN stub_dir /\ stub_dir[n] = fresh.dir[n]

\* A later build whose discovery no longer names a stub that is still on disk.
C6_Witness ==
    /\ builds >= 2
    /\ outcome = "done"
    /\ \E n \in DOMAIN stub_dir : n \notin DOMAIN FreshRun.dir

ClaimedGroupOf(module_path) ==
    LET parts == RSplit1(module_path)
    IN  IF Len(parts) = 1 THEN <<<<>>, parts[1]>> ELSE <<parts[1], parts[2]>>

\* The (parent, child) the index files a module path under: as claimed, but
\* a path of one segment is its own parent, with an unnamed child.
IndexGroupOf(module_path) ==
    LET parts == RSplit1(module_path)
    IN  IF Len(parts) = 1 THEN <<module_path, <<>>>> ELSE <<parts[1], parts[2]>>

\* The listing of group (parent, child) in parent_to_child, <<>> when absent.
ListingOf(groups, parent, child) ==
    IF \E i \in 1..Len(groups) :
          groups[i].key = parent /\ \E k \in 1..Len(groups[i].items) :
                                        groups[i].items[k].key = child
    THEN LET i == CHOOSE i \in 1..Len(groups) :
                      groups[i].key = parent /\ \E k \in 1..Len(groups[i].items) :
                                                    groups[i].items[k].key = child
             k == CHOOSE k \in 1..Len(groups[i].items) : groups[i].items[k].key = child
         IN  groups[i].items[k].items
    ELSE <<>>

\* The stub_infos entries of a group, in discovery order, as index entries;
\* claimed says which of the two groupings is meant.
DiscoveredIn(infos, group, claimed) ==
    LET InGroup(info) ==
            (IF claimed THEN ClaimedGroupOf(info.module_path)
             ELSE IndexGroupOf(info.module_path)) = group
        sel == SelectSeq(infos, InGroup)
    IN  [i \in 1..Len(sel) |->
            [packet_name |-> sel[i].packet_name, stub |-> sel[i].stub_relpath]]

\* No key occurs twice among the parents, nor among the children of a parent.
KeysAreUnique(groups) ==
    /\ \A i, j \in 1..Len(groups) : groups[i].key = groups[j].key => i = j
    /\ \A i \in 1..Len(groups) :
          \A k, l \in 1..Len(groups[i].items) :
              groups[i].items[k].key = groups[i].items[l].key => k = l

\* The number of index lines listing stub_relpath.
TimesListed(groups, stub_relpath) ==
    LET places == UNION {UNION {{<<i, k, e>> : e \in 1..Len(groups[i].items[k].items)} :
                                    k \in 1..Len(groups[i].items)} :
                            i \in 1..Len(groups)}
    IN  Cardinality({t \in places :
                        groups[t[1]].items[t[2]].items[t[3]].stub = stub_relpath})

PyNone == [t |-> "none"]
PyInt(n) == [t |-> "int", i |-> n]
PyStr(chars) == [t |-> "str", s |-> chars]
PyTuple(dims) == [t |-> "tuple", d |-> dims]

\* getattr(obj, attr, default)
GetAttr(obj, attr, default) == IF attr \in DOMAIN obj THEN obj[attr] ELSE default

\* str(t) for a tuple of ints: "(4, 4)", "(4,)", "()".
StrTuple(dims) ==
    IF Len(dims) = 1 THEN <<"(">> \o StrInt(dims[1]) \o <<",", ")">>
    ELSE <<"(">> \o Join([i \in 1..Len(dims) |-> StrInt(dims[i])], <<",", " ">>) \o <<")">>

\* str(value)
Str(value) ==
    CASE value.t = "none" -> <<"N", "o", "n", "e">>
      [] value.t = "int" -> StrInt(value.i)
      [] value.t = "str" -> value.s
      [] value.t = "tuple" -> StrTuple(value.d)

\* bool(value)
Truthy(value) ==
    CASE value.t = "none" -> FALSE
      [] value.t = "int" -> value.i # 0
      [] value.t = "str" -> value.s # <<>>
      [] value.t = "tuple" -> value.d # <<>>

RECURSIVE ReplaceWith(_, _, _)
\* s.replace(old, new) for a one-character old and a str new.
ReplaceWith(s, old, new) ==
    IF s = <<>> THEN <<>>
    ELSE (IF Head(s) = old THEN new ELSE <<Head(s)>>) \o ReplaceWith(Tail(s), old, new)

(***************************************************************************)
(* SpacDocsDirective.  A docutils node is a record of what the code puts   *)
(* into it; the fixed markup of the tooltip and of the tables is left out. *)
(***************************************************************************)
ALL_COLUMNS ==
    << [colname |-> "Name", attr |-> "_name", show_on_summary |-> TRUE],
       [colname |-> "DataType", attr |-> "_data_type", show_on_summary |-> TRUE],
       [colname |-> "BitLength", attr |-> "_bit_length", show_on_summary |-> TRUE],
       [colname |-> "BitOffset", attr |-> "_bit_offset", show_on_summary |-> TRUE],
       [colname |-> "ByteOrder", attr |-> "_byte_order", show_on_summary |-> TRUE],
       [colname |-> "FieldType", attr |-> "_field_type", show_on_summary |-> FALSE],
       [colname |-> "ArrayShape", attr |-> "_array_shape", show_on_summary |-> FALSE],
       [colname |-> "ArrayOrder", attr |-> "_array_order", show_on_summary |-> FALSE] >>

\* "expand"
Expand == <<"e", "x", "p", "a", "n", "d">>

\* The outcome of _load_packet: a packet, None, or an exception raised.
Raised(error) == [kind |-> "raised", error |-> error]
Returned(value) == [kind |-> "returned", value |-> value]

_load_packet(h, packet_obj_name) ==
    LET parts == RSplit1(packet_obj_name)
    IN  IF Len(parts) # 2 THEN Raised("ValueError")
        ELSE LET module_name == parts[1]
                 var_name == parts[2]
                 module == import_module(h, module_name)
             IN  IF ~module.ok THEN Raised("ModuleNotFoundError")
                 ELSE LET packet == GetAttrOrNone(module, var_name)
                      IN  IF ~IsBasePacket(packet) THEN Returned(NoneObject)
                          ELSE Returned(packet)

\* The running offset is used even when the field sets its own.
_calculate_bit_offset_ignoring_own(field, running_offset) == PyInt(running_offset)

_calculate_bit_offset(field, running_offset) ==
    LET value == GetAttr(field, "_bit_offset", PyNone)
    IN  IF value = PyNone \/ value = PyStr(<<>>) THEN PyInt(running_offset) ELSE value

_format_bit_offset(field, running_offset) ==
    Str(_calculate_bit_offset(field, running_offset))

\* The dimensions are joined without the brackets.
_format_data_type_no_brackets(field) ==
    LET data_type == GetAttr(field, "_data_type", PyNone)
        array_shape == GetAttr(field, "_array_shape", PyNone)
    IN  IF array_shape = PyStr(Expand) THEN Str(data_type)
        ELSE IF array_shape.t = "tuple"
        THEN Str(data_type)
             \o Join([i \in 1..Len(array_shape.d) |-> StrInt(array_shape.d[i])], <<",">>)
        ELSE Str(data_type)

_format_data_type(field) ==
    LET data_type == GetAttr(field, "_data_type", PyNone)
        array_shape == GetAttr(field, "_array_shape", PyNone)
    IN  IF array_shape = PyStr(Expand) THEN Str(data_type) \o <<"[", "]">>
        ELSE IF array_shape.t = "tuple"
        THEN Str(data_type) \o <<"[">>
             \o Join([i \in 1..Len(array_shape.d) |-> StrInt(array_shape.d[i])], <<",">>)
             \o <<"]">>
        ELSE Str(data_type)

_format_field_value(field, attr) ==
    LET value == GetAttr(field, attr, PyStr(<<>>))
    IN  IF value = PyNone THEN <<>> ELSE Str(value)

_get_formatted_value(field, attr, running_offset) ==
    IF attr = "_data_type" THEN _format_data_type(field)
    ELSE IF attr = "_bit_offset" THEN _format_bit_offset(field, running_offset)
    ELSE _format_field_value(field, attr)

\* The paragraph of a Name cell: the reference to the field's section and,
\* with a description, the tooltip holding the escaped description.
_create_name_entry_with_tooltip(field_name, description) ==
    [ref |-> [text |-> field_name, refuri |-> <<"#">> \o <<"f", "i", "e", "l", "d", "-">> \o field_name],
     tooltip |->
        IF Truthy(description)
        THEN <<ReplaceWith(ReplaceWith(Str(description), "\"", <<"&", "q", "u", "o", "t", ";">>),
                           "'", <<"&", "#", "3", "9", ";">>)>>
        ELSE <<>>]

RECURSIVE SummaryEntries(_, _, _)
\* "for column in self.ALL_COLUMNS:" of _create_summary_table_row.
SummaryEntries(columns, field, running_offset) ==
    IF columns = <<>> THEN <<>>
    ELSE LET column == Head(columns)
             rest == SummaryEntries(Tail(columns), field, running_offset)
         IN  IF ~column.show_on_summary THEN rest
             ELSE IF column.attr = "_name"
             THEN <<[name |-> _create_name_entry_with_tooltip(
                                 Str(GetAttr(field, column.attr, PyStr(<<>>))),
                                 GetAttr(field, "_description", PyNone))]>> \o rest
             ELSE <<[text |-> _get_formatted_value(field, column.attr, running_offset)]>>
                  \o rest

_create_summary_table_row(field, running_offset) ==
    SummaryEntries(ALL_COLUMNS, field, running_offset)

_create_detail_section_row(colname, value) == [colname |-> colname, value |-> value]

RECURSIVE DetailRows(_, _, _, _)
\* "for colname, attr, _ in self.ALL_COLUMNS:" of _create_field_detail_section.
DetailRows(columns, field, is_array, running_offset) ==
    IF columns = <<>> THEN <<>>
    ELSE LET column == Head(columns)
             rest == DetailRows(Tail(columns), field, is_array, running_offset)
         IN  IF column.attr \in {"_name", "_field_type"} THEN rest
             ELSE IF ~is_array /\ column.attr \in {"_array_shape", "_array_order"} THEN rest
             ELSE <<_create_detail_section_row(
                        column.colname,
                        _get_formatted_value(field, column.attr, running_offset))>> \o rest

\* The section shows the offset past the field instead of the offset of it.
_create_field_detail_section_offset_after(field, running_offset) ==
    LET field_name == Str(GetAttr(field, "_name", PyStr(<<>>)))
        description == GetAttr(field, "_description", PyNone)
        is_array == GetAttr(field, "_array_shape", PyNone) # PyNone
        bitlen == GetAttr(field, "_bit_length", PyInt(0))
    IN  [ids |-> <<<<"f", "i", "e", "l", "d", "-">> \o field_name>>,
         title |-> field_name,
         description |-> IF Truthy(description) THEN <<Str(description)>> ELSE <<>>,
         rows |-> DetailRows(ALL_COLUMNS, field, is_array,
                             running_offset + (IF bitlen = PyNone THEN 0 ELSE bitlen.i))]

_create_field_detail_section(field, running_offset) ==
    LET field_name == Str(GetAttr(field, "_name", PyStr(<<>>)))
        description == GetAttr(field, "_description", PyNone)
        is_array == GetAttr(field, "_array_shape", PyNone) # PyNone
    IN  [ids |-> <<<<"f", "i", "e", "l", "d", "-">> \o field_name>>,
         title |-> field_name,
         description |-> IF Truthy(description) THEN <<Str(description)>> ELSE <<>>,
         rows |-> DetailRows(ALL_COLUMNS, field, is_array, running_offset)]

\* The header row of the summary table (its body is filled by the caller).
_create_summary_table_structure ==
    LET summary_columns == SelectSeq(ALL_COLUMNS, LAMBDA col : col.show_on_summary)
    IN  [cols |-> Len(summary_columns),
         header |-> [i \in 1..Len(summary_columns) |-> summary_columns[i].colname]]

RECURSIVE FieldLoop(_, _, _)
\* "for field in packet._fields:" with the content built so far.
FieldLoop(fields, running_offset, content) ==
    IF fields = <<>> THEN content
    ELSE LET field == Head(fields)
             summary_row == _create_summary_table_row(field, running_offset)
             detail_section == _create_field_detail_section(field, running_offset)
             bitlen == GetAttr(field, "_bit_length", PyInt(0))
             increment == IF bitlen = PyNone THEN 0 ELSE bitlen.i
         IN  FieldLoop(Tail(fields), running_offset + increment,
                       [summary_rows |-> Append(content.summary_rows, summary_row),
                        detail_sections |-> Append(content.detail_sections, detail_section)])

_create_summary_and_detail_content(packet) ==
    LET table == _create_summary_table_structure
        content == FieldLoop(packet.fields, 0,
                             [summary_rows |-> <<>>, detail_sections |-> <<>>])
    IN  [summary_table |-> [cols |-> table.cols, header |-> table.header,
                            rows |-> content.summary_rows],
         detail_sections |-> content.detail_sections]

\* The desc node of a packet: its signature, then (with fields) the summary
\* table and the detail sections as the children of desc_content.
_gen_nodes(packet) ==
    LET signature_node == [desc_name |-> packet.name,
                           packet_type |-> <<" ", "(", "T", "y", "p", "e", ":", " ">> \o packet.typeName \o <<")">>]
        content == _create_summary_and_detail_content(packet)
    IN  <<[signature |-> signature_node,
           tables |-> IF packet.fields # <<>> THEN <<content.summary_table>> ELSE <<>>,
           sections |-> IF packet.fields # <<>> THEN content.detail_sections ELSE <<>>]>>

\* SpacDocsDirective.run for self.arguments == [packet_obj_name].
run(h, packet_obj_name) ==
    LET loaded == _load_packet(h, packet_obj_name)
    IN  IF loaded.kind = "raised" THEN loaded
        ELSE IF loaded.value = NoneObject THEN Returned(<<>>)
        ELSE Returned(_gen_nodes(loaded.value))

(***************************************************************************)
(* The packets the directive is run on.  A field is a function from the    *)
(* attribute names it has to their values.                                 *)
(***************************************************************************)
\* A PacketField named f<k> of data type "uint".
Field(k, bit_length, bit_offset) ==
    ("_name" :> PyStr(<<"f", Digit(k)>>)) @@ ("_data_type" :> PyStr(<<"u", "i", "n", "t">>)) @@
    ("_bit_length" :> bit_length) @@ ("_bit_offset" :> bit_offset) @@
    ("_byte_order" :> PyStr(<<"b", "i", "g">>)) @@ ("_field_type" :> PyStr(<<"e", "l", "e", "m", "e", "n", "t">>)) @@
    ("_array_shape" :> PyNone) @@ ("_array_order" :> PyNone)

\* A PacketArray named f<k> of that shape, with no offset of its own.
ArrayField(k, bit_length, array_shape) ==
    ("_array_shape" :> array_shape) @@ ("_array_order" :> PyStr(<<"C">>)) @@
    ("_field_type" :> PyStr(<<"a", "r", "r", "a", "y">>)) @@ Field(k, bit_length, PyNone)

Fields ==
    { Field(1, PyInt(8), PyNone),
      Field(2, PyInt(16), PyNone),
      Field(3, PyNone, PyNone),
      Field(4, PyInt(8), PyInt(4)),
      Field(5, PyInt(8), PyStr(<<>>)),
      ArrayField(6, PyInt(8), PyStr(Expand)),
      ("_description" :> PyStr(<<"a", " ", "\"", "b", "\"">>)) @@ ArrayField(7, PyInt(16), PyTuple(<<4, 4>>)),
      ("_name" :> PyStr(<<"f", "8">>)) @@ ("_data_type" :> PyStr(<<"u", "i", "n", "t">>)),
      ArrayField(9, PyInt(8), PyStr(<<"f", "1">>)) }

Packets ==
    {[isPacket |-> TRUE, name |-> <<"P">>, typeName |-> <<"V">>, fields |-> fs] :
        fs \in SeqsUpTo(Fields, MaxFields)}

\* The hosts of the directive: m.a defines the packet a, m.b defines no
\* packet and m_a does not import.
DirectiveHosts ==
    {(Mod_m_dot_a :> [ok |-> TRUE,
                      attrs |-> (Attr_doc :> OtherObject) @@ (Attr_a :> packet)]) @@
     (Mod_m_dot_b :> [ok |-> TRUE, attrs |-> (Attr_doc :> OtherObject)]) @@
     (Mod_m_a :> ImportFails) : packet \in Packets}

\* The directive arguments: m.a.a, m.a.__doc__, m.a.b, m.b.b, m_a.b and a
\* name with no dot.
Addresses ==
    { Mod_m_dot_a \o <<".">> \o Attr_a,
      Mod_m_dot_a \o <<".">> \o Attr_doc,
      Mod_m_dot_a \o <<".">> \o Attr_b,
      Mod_m_dot_b \o <<".">> \o Attr_b,
      Mod_m_a \o <<".">> \o Attr_b,
      Attr_a }

InitDirective ==
    /\ packet_modules = <<>>
    /\ exclude_columns \in {{}, {"ByteOrder"}}
    /\ host \in DirectiveHosts
    /\ stub_dir = <<>>
    /\ toctree_file = <<>>
    /\ stub_infos = <<>>
    /\ writes = <<>>
    /\ outcome = "none"
    /\ unchanged = FALSE
    /\ last_inputs = <<>>
    /\ builds = 0
    /\ edits = 0
    /\ arguments = <<>>
    /\ result = NotRun

\* Sphinx expands one occurrence of the directive.
RunDirective ==
    /\ \E packet_obj_name \in Addresses :
          /\ arguments' = <<packet_obj_name>>
          /\ result' = run(host, packet_obj_name)
    /\ UNCHANGED <<packet_modules, exclude_columns, host, stub_dir, toctree_file,
                   stub_infos, writes, outcome, unchanged, last_inputs, builds, edits>>

NextDirective == RunDirective

SpecDirective == InitDirective /\ [][NextDirective]_vars

(***************************************************************************)
(* Properties of the directive.                                            *)
(***************************************************************************)
\* The address names a packet: it has a dot, its module imports, and the
\* attribute exists and is a packet.
Resolves(h, packet_obj_name) ==
    /\ \E i \in 1..Len(packet_obj_name) : packet_obj_name[i] = "."
    /\ LET parts == RSplit1(packet_obj_name)
       IN  /\ parts[1] \in DOMAIN h
           /\ h[parts[1]].ok
           /\ parts[2] \in DOMAIN h[parts[1]].attrs
           /\ h[parts[1]].attrs[parts[2]].isPacket

\* The directive has run on a packet and returned its nodes.
Rendered == result.kind = "returned" /\ result.value # <<>>

\* The fields of the packet the directive has run on.
RenderedFields == host[RSplit1(arguments[1])[1]].attrs[RSplit1(arguments[1])[2]].fields

\* The text of the summary table's cell of field k under column colname.
SummaryCell(k, colname) ==
    LET table == result.value[1].tables[1]
        c == CHOOSE c \in 1..Len(table.header) : table.header[c] = colname
    IN  table.rows[k][c].text

\* The value of the row colname of the detail section of field k.
DetailValue(k, colname) ==
    LET rows == result.value[1].sections[k].rows
        r == CHOOSE r \in 1..Len(rows) : rows[r].colname = colname
    IN  rows[r].value

RECURSIVE SumOfLengths(_, _)
\* The sum of the bit lengths of the first n fields, unset and absent as 0.
SumOfLengths(fields, n) ==
    IF n = 0 THEN 0
    ELSE LET bit_length == IF "_bit_length" \in DOMAIN fields[n]
                           THEN fields[n]["_bit_length"] ELSE PyNone
         IN  SumOfLengths(fields, n - 1) + (IF bit_length = PyNone THEN 0 ELSE bit_length.i)

\* The field sets a bit offset of its own.
HasOwnOffset(field) ==
    /\ "_bit_offset" \in DOMAIN field
    /\ field["_bit_offset"] # PyNone
    /\ field["_bit_offset"] # PyStr(<<>>)

\* C2 as claimed: on an address that does not resolve to a packet, run
\* returns the empty list and raises nothing.
C2_UnresolvableGivesEmpty ==
    (arguments # <<>> /\ ~Resolves(host, arguments[1])) => result = Returned(<<>>)

\* C3: the offset shown for a field, in its summary row and in its detail
\* section, is its own offset when it sets one and otherwise the sum of the
\* bit lengths of the fields before it, unset lengths counting as zero.
C3_BitOffsets ==
    Rendered =>
        \A k \in 1..Len(RenderedFields) :
            LET field == RenderedFields[k]
                expected == IF HasOwnOffset(field) THEN StrInt(field["_bit_offset"].i)
                            ELSE StrInt(SumOfLengths(RenderedFields, k - 1))
            IN  /\ SummaryCell(k, "BitOffset") = expected
                /\ DetailValue(k, "BitOffset") = expected

\* Bit lengths 8, 16, 8 with no offset set are shown at offsets 0, 8, 24.
C3_Witness ==
    /\ Rendered
    /\ RenderedFields = <<Field(1, PyInt(8), PyNone), Field(2, PyInt(16), PyNone),
                          Field(1, PyInt(8), PyNone)>>
    /\ SummaryCell(1, "BitOffset") = <<"0">>
    /\ SummaryCell(2, "BitOffset") = <<"8">>
    /\ SummaryCell(3, "BitOffset") = <<"2", "4">>

\* C4 as claimed: with "ByteOrder" in the exclude-list the summary table has
\* no ByteOrder column, in its header or in any row, and the detail sections
\* are those of a run without the exclusion.
C4_ByteOrderExcluded ==
    ("ByteOrder" \in exclude_columns /\ Rendered /\ result.value[1].tables # <<>>) =>
        LET table == result.value[1].tables[1]
        IN  /\ \A c \in 1..Len(table.header) : table.header[c] # "ByteOrder"
            /\ \A k \in 1..Len(table.rows) : Len(table.rows[k]) = Len(table.header)
            /\ result.value[1].sections = run(host, arguments[1]).value[1].sections

RECURSIVE CommaJoined(_)
\* The dimensions as decimal numbers with a comma between them.
CommaJoined(dims) ==
    IF Len(dims) = 1 THEN StrInt(dims[1])
    ELSE CommaJoined(SubSeq(dims, 1, Len(dims) - 1)) \o <<",">> \o StrInt(dims[Len(dims)])

C10_OneRowAndSectionPerField ==
    Rendered =>
        LET N == Len(RenderedFields)
            node == result.value[1]
            rows == IF node.tables = <<>> THEN <<>> ELSE node.tables[1].rows
        IN  /\ Len(node.tables) <= 1
            /\ Len(rows) = N
            /\ Len(node.sections) = N
            /\ \A k \in 1..N :
                  /\ rows[k][1].name.ref.text = RenderedFields[k]["_name"].s
                  /\ node.sections[k].title = RenderedFields[k]["_name"].s
                  /\ SummaryCell(k, "BitOffset") = DetailValue(k, "BitOffset")

\* A packet of three fields rendered with three rows and three sections.
C10_Witness ==
    /\ Rendered
    /\ Len(RenderedFields) = 3
    /\ Len(result.value[1].sections) = 3
    /\ Len(result.value[1].tables[1].rows) = 3
    /\ RenderedFields[1] # RenderedFields[2]

====
